---- MODULE Spec2Model ----
(***************************************************************************)
(* Model of syinfo's sampling engine (syinfo/monitoring/system_monitor.py:  *)
(* SystemMonitor with its JSONL sink and rotation) and of its log query     *)
(* engine (syinfo/analysis/logs.py: LogAnalyzer.query_logs).                *)
(*                                                                         *)
(* Time is discrete, in seconds, and is kept by the timers the code reads:  *)
(* the time elapsed since the loop started, the time left of the interval   *)
(* wait, the time left of the join.  A step of a thread takes no time; time *)
(* passes only while every thread is waiting, idle, or inside a call to the *)
(* metrics provider or to the user's callback (either may take arbitrarily  *)
(* long).                                                                   *)
(***************************************************************************)
EXTENDS Integers, Sequences, FiniteSets, TLC

\* ---------------------------------------------------------------- bounds
MaxSessions == 2
MaxSamples == 3

\* thread.join(timeout=5)
JoinTimeout == 5

CpuValues == {0, 100}
\* start()'s duration argument; 0 stands for None as well (both are falsy)
Durations == 0..3
Workers == 1..MaxSessions

\* The constructor's arguments the model is run with.  An optional number is
\* a set: {} is None, {n} is n.
Configs ==
    {[interval |-> i, has_output |-> FALSE, rotate_max_lines |-> {},
      rotate_max_bytes |-> {}, keep_in_memory |-> TRUE,
      summary_on_stop |-> TRUE] : i \in {1, 2}}
    \cup
    {[interval |-> 1, has_output |-> TRUE, rotate_max_lines |-> {2},
      rotate_max_bytes |-> {}, keep_in_memory |-> TRUE,
      summary_on_stop |-> TRUE],
     [interval |-> 1, has_output |-> TRUE, rotate_max_lines |-> {},
      rotate_max_bytes |-> {6}, keep_in_memory |-> FALSE,
      summary_on_stop |-> FALSE]}

VARIABLES
    \* ---- LogAnalyzer: the log files, the configuration, the query in hand,
    \* query_logs' position and locals, the futures not yet completed, the
    \* merged results, the list returned
    log_fs, lcfg, query, qpc, qloc, pending, results, qret,
    \* ---- SystemMonitor: the constructor's arguments, then the mutable fields
    cfg, is_running, data_points, thread, stop_event,
    log_fp, lines_written, bytes_written,
    \* ---- the file system under the resolved output path: the active file,
    \* the rotated files in the order of their creation, whether the newest
    \* rotated file was named in the current second, the summary file (the kind
\* of summary it holds)
    active, rotated, rot_sec, summary_file,
    \* ---- the worker threads (one per start() that created one)
    wpc, wloc,
    \* ---- the caller's thread: position inside stop(), its locals, last outcome
    spc, sloc, ret,
    \* ---- number of threads created, and the history the properties refer to
    nsess, hist

monVars == <<cfg, is_running, data_points, thread, stop_event,
             log_fp, lines_written, bytes_written,
             active, rotated, rot_sec, summary_file, wpc, wloc, spc, sloc,
             ret, nsess, hist>>

logVars == <<log_fs, lcfg, query, qpc, qloc, pending, results, qret>>

vars == <<monVars, logVars>>

\* ------------------------------------------------------------- data
\* _collect_data_point: one snapshot; memory and disk have cpu's shape, the
\* timestamp is not read by the code modelled here
DataPoint(c) == [cpu_percent |-> c]

NoDataPoint == [cpu_percent |-> 0]

RECURSIVE SumCpu(_)
SumCpu(s) == IF s = <<>> THEN 0 ELSE Head(s).cpu_percent + SumCpu(Tail(s))

RECURSIVE MaxCpu(_)
MaxCpu(s) ==
    IF Len(s) = 1 THEN Head(s).cpu_percent
    ELSE LET m == MaxCpu(Tail(s))
         IN  IF Head(s).cpu_percent >= m THEN Head(s).cpu_percent ELSE m

\* A summary value.  kind "stats" is the dict of _calculate_summary, "empty" is
\* {}, "error" is {"error": "No data points collected"}; cpu_avg is the
\* quotient cpu_avg_num / cpu_avg_den.
NoSummary == [kind |-> "none", duration_seconds |-> 0, cpu_avg_num |-> 0,
              cpu_avg_den |-> 1, cpu_max |-> 0]

EmptySummary == [NoSummary EXCEPT !.kind = "empty"]

ErrorSummary == [NoSummary EXCEPT !.kind = "error"]

\* SystemMonitor._calculate_summary
CalculateSummary(dps, ival) ==
    IF dps = <<>> THEN EmptySummary
    ELSE [kind |-> "stats",
          duration_seconds |-> Len(dps) * ival,
          cpu_avg_num |-> SumCpu(dps),
          cpu_avg_den |-> Len(dps),
          cpu_max |-> MaxCpu(dps)]

\* stop(), lines 132-136
StopSummary(dps, ival) ==
    IF dps # <<>> THEN CalculateSummary(dps, ival) ELSE ErrorSummary

\* len(json.dumps(data_point)): the digits of the value are the part that varies
JsonLen(dp) ==
    IF dp.cpu_percent >= 100 THEN 3 ELSE IF dp.cpu_percent >= 10 THEN 2 ELSE 1

RECURSIVE FileSize(_)
FileSize(f) == IF f = <<>> THEN 0 ELSE JsonLen(Head(f)) + 1 + FileSize(Tail(f))

\* What a call left for its caller: the call, how it ended, whether that was
\* by an exception (raised) or by a value handed back; for a result of stop(),
\* whether its join had timed out, and the dict's three entries.
NoRet == [op |-> "none", kind |-> "none", raised |-> FALSE,
          timed_out |-> FALSE, summary |-> NoSummary,
          data_points |-> <<>>, total_points |-> 0]

\* a worker's locals: start()'s arguments, time.time() - start_time (counted
\* up to duration, beyond which the code cannot tell), the time left of the
\* wait, the data point in hand
NoWLoc == [duration |-> 0, callback |-> FALSE, elapsed |-> 0, wait_left |-> 0,
           dp |-> NoDataPoint]

NoSLoc == [join_left |-> 0, timed_out |-> FALSE, summary |-> NoSummary]

\* history of the current session: whether a call raised or took time, how
\* the loop ended, the data points collected and the duration asked for; and
\* of the monitor: the data points collected in all its sessions, the lines
\* written to the sink, whether a rename failed
NoHist == [disturbed |-> FALSE, ended_by |-> "none", collected |-> 0,
           duration |-> 0, total |-> 0, writes |-> 0, rename_failed |-> FALSE]

\* ------------------------------------------------------------- Init
\* SystemMonitor.__init__
MonInit ==
    /\ cfg \in Configs
    /\ is_running = FALSE
    /\ data_points = <<>>
    /\ thread = 0
    /\ stop_event = FALSE
    /\ log_fp = "none"
    /\ lines_written = 0
    /\ bytes_written = 0
    /\ active = <<>>
    /\ rotated = <<>>
    /\ rot_sec = FALSE
    /\ summary_file = "absent"
    /\ wpc = [w \in Workers |-> "none"]
    /\ wloc = [w \in Workers |-> NoWLoc]
    /\ spc = "idle"
    /\ sloc = NoSLoc
    /\ ret = NoRet
    /\ nsess = 0
    /\ hist = NoHist

\* ------------------------------------------------------------- start()
\* a start() that has lost its guard
StartNeverRefuses == FALSE

\* a start() that is let through once a stop has been requested
StartRefusesUntilStopRequested == is_running /\ ~stop_event

\* a start() that takes a monitor once started for good
StartRefusesOnceStarted == is_running \/ thread # 0

\* lines 74-75: the guard of start()
StartRefuses == is_running

\* _prepare_output (the output path names a file): open in append mode, take
\* the size of what is there, restart the line count
PrepareOutput ==
    /\ log_fp' = "open"
    /\ bytes_written' = FileSize(active)
    /\ lines_written' = 0

\* start(duration, callback); prepare_ok is whether mkdir and open succeed
Start(d, cb, prepare_ok) ==
    /\ spc = "idle"
    /\ IF StartRefuses
       THEN /\ ret' = [NoRet EXCEPT !.op = "start", !.kind = "AlreadyRunning",
                                    !.raised = TRUE]
            /\ UNCHANGED <<is_running, stop_event, data_points, thread, log_fp,
                           lines_written, bytes_written, wpc, wloc, nsess, hist>>
       ELSE /\ nsess < MaxSessions
            /\ is_running' = TRUE
            /\ stop_event' = FALSE
            /\ data_points' = <<>>
            /\ hist' = [NoHist EXCEPT !.duration = d,
                                      !.total = hist.total,
                                      !.writes = hist.writes,
                                      !.rename_failed = hist.rename_failed]
            /\ IF cfg.has_output /\ ~prepare_ok
               THEN \* _prepare_output raised: start() ends here, no thread
                    /\ ret' = [NoRet EXCEPT !.op = "start",
                                            !.kind = "PrepareFailed",
                                            !.raised = TRUE]
                    /\ UNCHANGED <<thread, log_fp, lines_written, bytes_written,
                                   wpc, wloc, nsess>>
               ELSE /\ IF cfg.has_output
                       THEN PrepareOutput
                       ELSE UNCHANGED <<log_fp, lines_written, bytes_written>>
                    /\ nsess' = nsess + 1
                    /\ thread' = nsess + 1
                    /\ wpc' = [wpc EXCEPT ![nsess + 1] = "loop"]
                    /\ wloc' = [wloc EXCEPT ![nsess + 1] =
                                  [NoWLoc EXCEPT !.duration = d, !.callback = cb]]
                    /\ ret' = [NoRet EXCEPT !.op = "start", !.kind = "started"]
    /\ UNCHANGED logVars
    /\ UNCHANGED <<cfg, active, rotated, rot_sec, summary_file, spc, sloc>>

\* ------------------------------------------------------------- monitor_loop
Goto(w, pc) == wpc' = [wpc EXCEPT ![w] = pc]

\* line 88, while not self._stop_event.is_set(): the next tick, or line 114,
\* self.is_running = False, and the end of the thread
LoopTest(w, loc) ==
    IF stop_event
    THEN /\ Goto(w, "done")
         /\ wloc' = [wloc EXCEPT ![w] = NoWLoc]
         /\ is_running' = FALSE
         /\ hist' = [hist EXCEPT !.ended_by = "stop"]
    ELSE /\ Goto(w, "collect")
         /\ wloc' = [wloc EXCEPT ![w] = loc]
         /\ UNCHANGED <<is_running, hist>>

\* an except clause that gives the loop up
RaisedEndsLoop(w, loc) ==
    /\ Goto(w, "done")
    /\ wloc' = [wloc EXCEPT ![w] = NoWLoc]
    /\ is_running' = FALSE
    /\ hist' = [hist EXCEPT !.ended_by = "error", !.disturbed = TRUE]

\* the except clause (lines 110-112), print and continue: back to line 88
\* with no wait
Raised(w, loc) ==
    IF stop_event
    THEN /\ Goto(w, "done")
         /\ wloc' = [wloc EXCEPT ![w] = NoWLoc]
         /\ is_running' = FALSE
         /\ hist' = [hist EXCEPT !.ended_by = "stop", !.disturbed = TRUE]
    ELSE /\ Goto(w, "collect")
         /\ wloc' = [wloc EXCEPT ![w] = loc]
         /\ hist' = [hist EXCEPT !.disturbed = TRUE]
         /\ UNCHANGED is_running

\* the thread starts: line 86, then the first test of line 88
W_Loop(w) ==
    /\ wpc[w] = "loop"
    /\ LoopTest(w, wloc[w])
    /\ UNCHANGED logVars
    /\ UNCHANGED <<cfg, data_points, thread, stop_event, log_fp,
                   lines_written, bytes_written, active, rotated, rot_sec,
                   summary_file, spc, sloc, ret, nsess>>

\* lines 91-93: the provider returns cpu value c (ok) or raises
W_Collect(w, c, ok) ==
    /\ wpc[w] = "collect"
    /\ IF ok
       THEN /\ hist.total < MaxSamples
            /\ wloc' = [wloc EXCEPT ![w].dp = DataPoint(c)]
            /\ hist' = [hist EXCEPT !.collected = @ + 1, !.total = @ + 1]
            /\ data_points' = IF cfg.keep_in_memory
                              THEN Append(data_points, DataPoint(c))
                              ELSE data_points
            /\ Goto(w, "persist")
            /\ UNCHANGED is_running
       ELSE /\ Raised(w, wloc[w])
            /\ UNCHANGED data_points
    /\ UNCHANGED logVars
    /\ UNCHANGED <<cfg, thread, stop_event, log_fp, lines_written,
                   bytes_written, active, rotated, rot_sec, summary_file,
                   spc, sloc, ret, nsess>>

\* lines 96-97 and _write_jsonl lines 217-227; ok is whether write and flush
\* succeed
W_Persist(w, ok) ==
    /\ wpc[w] = "persist"
    /\ IF log_fp = "none"
       THEN /\ Goto(w, "callback")
            /\ wloc' = [wloc EXCEPT ![w].dp = NoDataPoint]
            /\ UNCHANGED <<active, lines_written, bytes_written, hist,
                           is_running>>
       ELSE IF log_fp = "closed" \/ ~ok
       THEN \* a write on a closed handle (ValueError), or an I/O error
            /\ Raised(w, [wloc[w] EXCEPT !.dp = NoDataPoint])
            /\ UNCHANGED <<active, lines_written, bytes_written>>
       ELSE /\ active' = Append(active, wloc[w].dp)
            /\ lines_written' = lines_written + 1
            /\ bytes_written' = bytes_written + JsonLen(wloc[w].dp) + 1
            /\ hist' = [hist EXCEPT !.writes = @ + 1]
            /\ wloc' = [wloc EXCEPT ![w].dp = NoDataPoint]
            /\ Goto(w, "maybe_rotate")
            /\ UNCHANGED is_running
    /\ UNCHANGED logVars
    /\ UNCHANGED <<cfg, data_points, thread, stop_event, log_fp, rotated,
                   rot_sec, summary_file, spc, sloc, ret, nsess>>

\* _maybe_rotate, lines 233-235
ByLines(lines) == \E n \in cfg.rotate_max_lines : lines >= n

ByBytes(bytes) == \E n \in cfg.rotate_max_bytes : bytes >= n

RotationDue(lines, bytes) == ByLines(lines) \/ ByBytes(bytes)

\* _maybe_rotate lines 231-243: the threshold test and the close of the handle
W_MaybeRotate(w) ==
    /\ wpc[w] = "maybe_rotate"
    /\ IF log_fp = "none" \/ ~RotationDue(lines_written, bytes_written)
       THEN /\ Goto(w, "callback")
            /\ UNCHANGED log_fp
       ELSE /\ log_fp' = "none"
            /\ Goto(w, "rot_reopen")
    /\ UNCHANGED logVars
    /\ UNCHANGED <<cfg, is_running, data_points, thread, stop_event,
                   lines_written, bytes_written, active, rotated, rot_sec,
                   summary_file, wloc, spc, sloc, ret, nsess, hist>>

\* os.replace onto stem.<YYYYMMDD-HHMMSS>.suffix: one name a second, so a
\* second rotation within the second replaces the file of the first
Replace(files, same_second, f) ==
    IF same_second /\ files # <<>>
    THEN [files EXCEPT ![Len(files)] = f]
    ELSE Append(files, f)

\* _maybe_rotate lines 245-258: rename (rename_ok: whether os.replace or
\* Path.rename succeeds), reopen, reset the counters
W_Reopen(w, rename_ok) ==
    /\ wpc[w] = "rot_reopen"
    /\ IF rename_ok
       THEN /\ rotated' = Replace(rotated, rot_sec, active)
            /\ rot_sec' = TRUE
            /\ active' = <<>>
            /\ UNCHANGED hist
       ELSE /\ hist' = [hist EXCEPT !.rename_failed = TRUE]
            /\ UNCHANGED <<rotated, rot_sec, active>>
    /\ log_fp' = "open"
    /\ lines_written' = 0
    /\ bytes_written' = 0
    /\ Goto(w, "callback")
    /\ UNCHANGED logVars
    /\ UNCHANGED <<cfg, is_running, data_points, thread, stop_event,
                   summary_file, wloc, spc, sloc, ret, nsess>>

\* line 104: if duration and (time.time() - start_time) >= duration
DurationReached(w) ==
    wloc[w].duration # 0 /\ wloc[w].elapsed >= wloc[w].duration

\* lines 100-108: the callback, when there is one, returns (ok) or raises;
\* then the duration test: break (and line 114), or start the wait
W_Callback(w, ok) ==
    /\ wpc[w] = "callback"
    /\ IF wloc[w].callback /\ ~ok
       THEN Raised(w, wloc[w])
       ELSE IF DurationReached(w)
       THEN /\ Goto(w, "done")
            /\ wloc' = [wloc EXCEPT ![w] = NoWLoc]
            /\ is_running' = FALSE
            /\ hist' = [hist EXCEPT !.ended_by = "duration"]
       ELSE /\ Goto(w, "wait")
            /\ wloc' = [wloc EXCEPT ![w].wait_left = cfg.interval]
            /\ UNCHANGED <<is_running, hist>>
    /\ UNCHANGED logVars
    /\ UNCHANGED <<cfg, data_points, thread, stop_event, log_fp,
                   lines_written, bytes_written, active, rotated, rot_sec,
                   summary_file, spc, sloc, ret, nsess>>

\* a wait that a stop request does not end
WaitOverByTimeOnly(w) == wloc[w].wait_left = 0

\* line 108: self._stop_event.wait(self.interval) returns
WaitOver(w) == stop_event \/ wloc[w].wait_left = 0

\* line 108, then line 88
W_Wait(w) ==
    /\ wpc[w] = "wait"
    /\ WaitOver(w)
    /\ LoopTest(w, [wloc[w] EXCEPT !.wait_left = 0])
    /\ UNCHANGED logVars
    /\ UNCHANGED <<cfg, data_points, thread, stop_event, log_fp,
                   lines_written, bytes_written, active, rotated, rot_sec,
                   summary_file, spc, sloc, ret, nsess>>

\* ------------------------------------------------------------- stop()
\* a stop() that has lost its guard
StopNeverRefuses == FALSE

\* line 125: the guard of stop()
StopRefuses == ~is_running

\* line 126: what stop() hands back when the monitor is not running, the
\* dict {"error": "Monitoring is not running"}
StopRefusal == [NoRet EXCEPT !.op = "stop", !.kind = "NotRunning"]

\* lines 125-130: the guard, the flag, the start of the join
StopCall ==
    /\ spc = "idle"
    /\ IF StopRefuses
       THEN /\ ret' = StopRefusal
            /\ UNCHANGED <<stop_event, spc, sloc>>
       ELSE /\ stop_event' = TRUE
            /\ spc' = "join"
            /\ sloc' = [NoSLoc EXCEPT !.join_left = JoinTimeout]
            /\ ret' = [NoRet EXCEPT !.op = "stop", !.kind = "pending"]
    /\ UNCHANGED logVars
    /\ UNCHANGED <<cfg, is_running, data_points, thread, log_fp,
                   lines_written, bytes_written, active, rotated, rot_sec,
                   summary_file, wpc, wloc, nsess, hist>>

\* lines 129-130: there is no thread to join, or self._thread.join(timeout=5)
\* returns
JoinReturns ==
    IF thread = 0 THEN TRUE
    ELSE IF wpc[thread] = "done" THEN TRUE ELSE sloc.join_left = 0

\* lines 130-149: the join returns; the summary; the summary file next to the
\* JSONL file (_resolved_output_path is set once _prepare_output has resolved
\* it); the test of self._log_fp
S_Join ==
    /\ spc = "join"
    /\ JoinReturns
    /\ sloc' = [sloc EXCEPT !.join_left = 0,
                            !.timed_out = IF thread = 0 THEN FALSE
                                          ELSE wpc[thread] # "done",
                            !.summary = StopSummary(data_points, cfg.interval)]
    /\ summary_file' = IF cfg.summary_on_stop /\ cfg.has_output /\ thread # 0
                       THEN StopSummary(data_points, cfg.interval).kind
                       ELSE summary_file
    /\ spc' = IF log_fp # "none" THEN "close" ELSE "finally"
    /\ UNCHANGED logVars
    /\ UNCHANGED <<cfg, is_running, data_points, thread, stop_event, log_fp,
                   lines_written, bytes_written, active, rotated, rot_sec,
                   wpc, wloc, ret, nsess, hist>>

\* lines 150-153: flush and close whatever self._log_fp is by now; on None
\* (a rotation took the handle away) the AttributeError leaves stop() through
\* the finally clause
S_Close ==
    /\ spc = "close"
    /\ IF log_fp = "none"
       THEN /\ ret' = [NoRet EXCEPT !.op = "stop", !.kind = "AttributeError",
                                    !.raised = TRUE,
                                    !.timed_out = sloc.timed_out]
            /\ spc' = "idle"
            /\ sloc' = NoSLoc
            /\ UNCHANGED log_fp
       ELSE /\ log_fp' = "closed"
            /\ spc' = "finally"
            /\ UNCHANGED <<ret, sloc>>
    /\ UNCHANGED logVars
    /\ UNCHANGED <<cfg, is_running, data_points, thread, stop_event,
                   lines_written, bytes_written, active, rotated, rot_sec,
                   summary_file, wpc, wloc, nsess, hist>>

\* lines 155-159: the result; data_points is the live list, read here
StopResult ==
    [op |-> "stop", kind |-> "result", raised |-> FALSE,
     timed_out |-> sloc.timed_out, summary |-> sloc.summary,
     data_points |-> data_points, total_points |-> Len(data_points)]

\* lines 153-159: the finally clause, then the return
S_Return ==
    /\ spc = "finally"
    /\ log_fp' = "none"
    /\ ret' = StopResult
    /\ spc' = "idle"
    /\ sloc' = NoSLoc
    /\ UNCHANGED logVars
    /\ UNCHANGED <<cfg, is_running, data_points, thread, stop_event,
                   lines_written, bytes_written, active, rotated, rot_sec,
                   summary_file, wpc, wloc, nsess, hist>>

\* ------------------------------------------------------------- the clock
\* a worker inside the provider or the callback, where a call may take long
InCall(w) == wpc[w] \in {"collect", "callback"}

\* a thread that has nothing to do until time passes or another thread acts
WorkerQuiet(w) ==
    \/ wpc[w] \in {"none", "done"}
    \/ InCall(w)
    \/ wpc[w] = "wait" /\ ~WaitOver(w)

CallerQuiet == spc = "idle" \/ (spc = "join" /\ ~JoinReturns)

Min(a, b) == IF a <= b THEN a ELSE b

\* a worker's timers a second later
Later(w) ==
    IF wpc[w] \in {"none", "done"} THEN wloc[w]
    ELSE [wloc[w] EXCEPT
            !.elapsed = IF wloc[w].duration = 0 THEN 0
                        ELSE Min(@ + 1, wloc[w].duration),
            !.wait_left = IF @ > 0 THEN @ - 1 ELSE 0]

\* one second passes
Tick ==
    /\ \A w \in Workers : WorkerQuiet(w)
    /\ CallerQuiet
    /\ wloc' = [w \in Workers |-> Later(w)]
    /\ sloc' = [sloc EXCEPT !.join_left = IF @ > 0 THEN @ - 1 ELSE 0]
    /\ rot_sec' = FALSE
    /\ hist' = IF \E w \in Workers : InCall(w)
               THEN [hist EXCEPT !.disturbed = TRUE] ELSE hist
    /\ UNCHANGED logVars
    /\ UNCHANGED <<cfg, is_running, data_points, thread, stop_event, log_fp,
                   lines_written, bytes_written, active, rotated,
                   summary_file, wpc, spc, ret, nsess>>

\* ------------------------------------------------------------- the monitor
WorkerStep(w) ==
    \/ W_Loop(w)
    \/ \E c \in CpuValues, ok \in BOOLEAN : W_Collect(w, c, ok)
    \/ \E ok \in BOOLEAN : W_Persist(w, ok)
    \/ W_MaybeRotate(w)
    \/ \E rename_ok \in BOOLEAN : W_Reopen(w, rename_ok)
    \/ \E ok \in BOOLEAN : W_Callback(w, ok)
    \/ W_Wait(w)

CallerStep ==
    \/ \E d \in Durations, cb \in BOOLEAN, prepare_ok \in BOOLEAN :
          Start(d, cb, prepare_ok)
    \/ StopCall
    \/ S_Join
    \/ S_Close
    \/ S_Return

MonNext ==
    \/ \E w \in Workers : WorkerStep(w)
    \/ CallerStep
    \/ Tick


\* no log query is made
LogOff ==
    /\ log_fs = <<>> /\ lcfg = <<>> /\ query = <<>> /\ qpc = "off"
    /\ qloc = <<>> /\ pending = {} /\ results = <<>> /\ qret = <<>>

\* ------------------------------------------------------------- the sink
\* The sink on its own: one thread calls _write_jsonl time after time on a
\* monitor whose start() has just prepared a fresh output file.
SinkConfigs == {c \in Configs : c.has_output}

MaxAppends == 5

SinkInit ==
    /\ cfg \in SinkConfigs
    /\ is_running = TRUE
    /\ data_points = <<>>
    /\ thread = 1
    /\ stop_event = FALSE
    /\ log_fp = "open"
    /\ lines_written = 0
    /\ bytes_written = 0
    /\ active = <<>>
    /\ rotated = <<>>
    /\ rot_sec = FALSE
    /\ summary_file = "absent"
    /\ wpc = [w \in Workers |-> IF w = 1 THEN "callback" ELSE "none"]
    /\ wloc = [w \in Workers |-> NoWLoc]
    /\ spc = "idle"
    /\ sloc = NoSLoc
    /\ ret = [NoRet EXCEPT !.op = "start", !.kind = "started"]
    /\ nsess = 1
    /\ hist = NoHist
    /\ LogOff

\* line 97: self._write_jsonl(data_point), once the call before has returned
\* or raised
SinkAppend(c) ==
    /\ wpc[1] \in {"callback", "collect"}
    /\ hist.writes < MaxAppends
    /\ wloc' = [wloc EXCEPT ![1].dp = DataPoint(c)]
    /\ Goto(1, "persist")
    /\ UNCHANGED logVars
    /\ UNCHANGED <<cfg, is_running, data_points, thread, stop_event, log_fp,
                   lines_written, bytes_written, active, rotated, rot_sec,
                   summary_file, spc, sloc, ret, nsess, hist>>

\* a second passes between two calls
SinkTick ==
    /\ wpc[1] \in {"callback", "collect"}
    /\ rot_sec
    /\ rot_sec' = FALSE
    /\ UNCHANGED logVars
    /\ UNCHANGED <<cfg, is_running, data_points, thread, stop_event, log_fp,
                   lines_written, bytes_written, active, rotated,
                   summary_file, wpc, wloc, spc, sloc, ret, nsess, hist>>

SinkNext ==
    \/ \E c \in CpuValues : SinkAppend(c)
    \/ \E ok \in BOOLEAN : W_Persist(1, ok)
    \/ W_MaybeRotate(1)
    \/ \E rename_ok \in BOOLEAN : W_Reopen(1, rename_ok)
    \/ SinkTick

SinkSpec == SinkInit /\ [][SinkNext]_vars

\* ------------------------------------------------------------- the log engine
\* LogAnalyzer over a file system of MaxFiles log files.  A path is a number;
\* a glob pattern is the set of paths it matches, listed in path order.
MaxFiles == 3

Paths == 1..MaxFiles

\* LogAnalysisConfig.default_limit
DefaultLimit == 100

\* ThreadPoolExecutor(max_workers=4)
MaxWorkers == 4

\* datetime.min, the sort key of an entry without timestamp: below every
\* timestamp (timestamps are 1, 2, ...)
DatetimeMin == 0

\* parse_log_entry's level keywords, in the order it tries them
Levels == <<"EMERGENCY", "ALERT", "CRITICAL", "ERROR", "WARNING", "NOTICE",
            "INFO", "DEBUG">>

\* str.lower() and str.upper() on the words the model uses
Lower(w) ==
    CASE w \in {"error", "Error", "ERROR"} -> "error"
      [] w \in {"info", "INFO"} -> "info"
      [] w \in {"sshd", "SSHD"} -> "sshd"
      [] OTHER -> w

Upper(w) ==
    CASE w \in {"error", "Error", "ERROR"} -> "ERROR"
      [] w \in {"info", "INFO"} -> "INFO"
      [] w \in {"sshd", "SSHD"} -> "SSHD"
      [] w = "cron" -> "CRON"
      [] OTHER -> w

\* A line of a log file: the timestamp _parse_timestamp finds in it ({} when
\* none), its words as written, the name in "name[pid]:" ({} when absent).
LineA == [ts |-> {1}, words |-> {"ERROR", "sshd"}, process |-> {"sshd"},
          text |-> <<"x", ":", " ", "x">>]

LineB == [ts |-> {2}, words |-> {"info", "Error"}, process |-> {},
          text |-> <<"x", " ", "x">>]

LineC == [ts |-> {}, words |-> {"cron"}, process |-> {"cron"},
          text |-> <<"x", ":", " ", "x">>]

LineD == [ts |-> {2}, words |-> {"INFO"}, process |-> {},
          text |-> <<"x">>]

\* a file: modification time, size in MB, whether it can be opened, the line
\* at which reading it fails (0: none), whether its name ends in .gz, its
\* lines
FileShapes ==
    {[mtime |-> 1, size_mb |-> 1, readable |-> TRUE, broken_at |-> 0,
      gz |-> FALSE, lines |-> <<LineA>>],
     [mtime |-> 2, size_mb |-> 1, readable |-> TRUE, broken_at |-> 0,
      gz |-> FALSE, lines |-> <<LineC, LineA>>],
     [mtime |-> 2, size_mb |-> 1, readable |-> TRUE, broken_at |-> 0,
      gz |-> FALSE, lines |-> <<LineB>>],
     [mtime |-> 1, size_mb |-> 200, readable |-> TRUE, broken_at |-> 0,
      gz |-> FALSE, lines |-> <<LineB>>],
     [mtime |-> 1, size_mb |-> 1, readable |-> FALSE, broken_at |-> 0,
      gz |-> FALSE, lines |-> <<LineA>>],
     [mtime |-> 2, size_mb |-> 1, readable |-> TRUE, broken_at |-> 0,
      gz |-> TRUE, lines |-> <<LineD>>],
     [mtime |-> 1, size_mb |-> 1, readable |-> TRUE, broken_at |-> 2,
      gz |-> FALSE, lines |-> <<LineD, LineA>>]}

\* LogAnalysisConfig
LogConfigs ==
    {[log_paths |-> p, include_rotated |-> TRUE, max_files_per_pattern |-> 2,
      max_file_size_mb |-> 100, default_limit |-> dl] :
        p \in {<<Paths>>, <<{1, 2}, {2, 3}>>}, dl \in {1, DefaultLimit}}

\* query_logs' arguments.  An optional argument is a set ({} is None);
\* level_filter is the set of the names given (a single name, or a list).
MaxLimit == 2

AllQueries ==
    [text_filter : {"", "ERROR"},
     level_filter : {{}, {"error"}, {"ERROR"}, {"info"}},
     time_range : {{}, {<<2, 2>>}},
     process_filter : {"", "SSHD"},
     regex_pattern : {{}, {"("}, {"cron"}},
     file_patterns : {{}},
     limit : {{}} \cup {{n} : n \in 0..MaxLimit},
     reverse_order : BOOLEAN]

FiltersIn(q) ==
    (IF q.text_filter # "" THEN 1 ELSE 0)
    + (IF q.level_filter # {} THEN 1 ELSE 0)
    + (IF q.time_range # {} THEN 1 ELSE 0)
    + (IF q.process_filter # "" THEN 1 ELSE 0)
    + (IF q.regex_pattern # {} THEN 1 ELSE 0)

\* one filter at a time, or a pattern that does not compile next to another
\* filter
Queries ==
    {q \in AllQueries :
        \/ FiltersIn(q) <= 1
        \/ q.regex_pattern = {"("} /\ FiltersIn(q) = 2}

\* ---- sorting and slicing
\* list.sort(key=..., reverse=...): stable in both directions; x goes behind
\* the elements that do not come after it
\* the elements of s are pairs <<key, item>>
RECURSIVE InsertSorted(_, _, _)
InsertSorted(x, s, rev) ==
    IF s = <<>> THEN <<x>>
    ELSE IF (IF rev THEN Head(s)[1] >= x[1] ELSE Head(s)[1] <= x[1])
         THEN <<Head(s)>> \o InsertSorted(x, Tail(s), rev)
         ELSE <<x>> \o s

RECURSIVE StableSort(_, _)
StableSort(s, rev) ==
    IF s = <<>> THEN <<>>
    ELSE InsertSorted(s[Len(s)], StableSort(SubSeq(s, 1, Len(s) - 1), rev), rev)

Items(s) == [i \in 1..Len(s) |-> s[i][2]]

\* s[:n] for n >= 0
Take(s, n) == SubSeq(s, 1, IF n < Len(s) THEN n ELSE Len(s))

\* ---- discover_log_files
\* glob.glob(pattern): the paths of the pattern, in path order
RECURSIVE Listing(_)
Listing(pattern) ==
    IF pattern = {} THEN <<>>
    ELSE LET p == CHOOSE x \in pattern : \A y \in pattern : x <= y
         IN  <<p>> \o Listing(pattern \ {p})

Mtime(p) == log_fs[p].mtime

SmallEnough(p) == log_fs[p].size_mb <= lcfg.max_file_size_mb

\* lines 105-117: one pattern's files, newest first, cut to
\* max_files_per_pattern, without those over max_file_size_mb
ByMtime(files) == [i \in 1..Len(files) |-> <<Mtime(files[i]), files[i]>>]

\* one pattern's files with the size test ahead of the cut
FilesOfSizeFirst(pattern) ==
    Take(SelectSeq(Items(StableSort(ByMtime(Listing(pattern)), TRUE)),
                   SmallEnough),
         lcfg.max_files_per_pattern)

FilesOf(pattern) ==
    SelectSeq(Take(Items(StableSort(ByMtime(Listing(pattern)), TRUE)),
                   lcfg.max_files_per_pattern),
              SmallEnough)

RECURSIVE DiscoverLogFiles(_)
DiscoverLogFiles(patterns) ==
    IF patterns = <<>> THEN <<>>
    ELSE FilesOf(Head(patterns)) \o DiscoverLogFiles(Tail(patterns))

\* line 98: patterns or self.config.log_paths
PatternsUsed(patterns) ==
    IF patterns = {} THEN lcfg.log_paths ELSE CHOOSE p \in patterns : TRUE

\* ---- parse_log_entry
LineUpper(line) == {Upper(w) : w \in line.words}

LineLower(line) == {Lower(w) : w \in line.words}

\* lines 154-166: the first keyword of Levels found in line.upper(); "none"
\* is None
RECURSIVE FirstLevel(_, _)
FirstLevel(levels, line) ==
    IF levels = <<>> THEN "none"
    ELSE IF Head(levels) \in LineUpper(line) THEN Head(levels)
    ELSE FirstLevel(Tail(levels), line)

\* str.strip(): the text without its leading and trailing whitespace
RECURSIVE LStrip(_)
LStrip(t) ==
    IF t = <<>> THEN <<>>
    ELSE IF Head(t) = " " THEN LStrip(Tail(t)) ELSE t

RECURSIVE RStrip(_)
RStrip(t) ==
    IF t = <<>> THEN <<>>
    ELSE IF t[Len(t)] = " " THEN RStrip(SubSeq(t, 1, Len(t) - 1)) ELSE t

Strip(t) == RStrip(LStrip(t))

\* lines 169-170: re.search(r":\s*(.+)$") matches at the leftmost colon that
\* has a character behind it; \s* gives back what (.+) needs, so the group is
\* the rest without its leading whitespace, or one blank when the rest is
\* blank; the message is the group stripped, or the stripped line when
\* nothing matches
MsgMatch(t) == {i \in 1..Len(t) : t[i] = ":" /\ i < Len(t)}

Group1(t, i) ==
    LET rest == SubSeq(t, i + 1, Len(t))
    IN  IF LStrip(rest) = <<>> THEN <<rest[Len(rest)]>> ELSE LStrip(rest)

Message(t) ==
    IF MsgMatch(t) = {} THEN Strip(t)
    ELSE Strip(Group1(t, CHOOSE i \in MsgMatch(t) : \A j \in MsgMatch(t) : i <= j))

ParseLogEntry(line, file_path, line_number) ==
    [timestamp |-> line.ts,
     level |-> FirstLevel(Levels, line),
     process |-> line.process,
     message |-> Message(line.text),
     file_path |-> file_path,
     line_number |-> line_number]

\* ---- query_logs
\* line 198: limit = limit or self.config.default_limit
EffectiveLimit(limit) ==
    IF limit = {} \/ limit = {0} THEN lcfg.default_limit
    ELSE CHOOSE n \in limit : TRUE

\* a level filter used as it was given
LevelsAsGiven(level_filter) == level_filter

\* lines 201-204
NormalLevels(level_filter) == {Upper(l) : l \in level_filter}

\* a pattern kept whether it compiles or not
RegexAsGiven(regex_pattern) == regex_pattern

\* lines 206-211: a pattern that does not compile is dropped
CompileRegex(regex_pattern) == {r \in regex_pattern : r # "("}

\* lines 218-221: the tests on the raw line
LinePasses(q, loc, line) ==
    /\ q.text_filter = "" \/ Lower(q.text_filter) \in LineLower(line)
    /\ \A r \in loc.regex_compiled : Lower(r) \in LineLower(line)

\* lines 225-232: the tests on the parsed entry
EntryPasses(q, loc, e) ==
    /\ loc.level_filter = {} \/ (e.level # "none" /\ e.level \in loc.level_filter)
    /\ \/ q.process_filter = ""
       \/ \E p \in e.process : Lower(q.process_filter) = Lower(p)
    /\ \A r \in q.time_range : \A t \in e.timestamp : r[1] <= t /\ t <= r[2]

\* process_file: the entries of the lines that pass, in line order
RECURSIVE ProcessLines(_, _, _, _, _)
ProcessLines(q, loc, lines, file_path, line_number) ==
    IF lines = <<>> THEN <<>>
    ELSE LET e == ParseLogEntry(Head(lines), file_path, line_number)
             rest == ProcessLines(q, loc, Tail(lines), file_path,
                                  line_number + 1)
         IN  IF LinePasses(q, loc, Head(lines)) /\ EntryPasses(q, loc, e)
             THEN <<e>> \o rest ELSE rest

\* _read_file_lines, lines 174-183: the lines of the file up to the failure,
\* none from a file that cannot be opened
ReadFileLines(file_path) ==
    LET f == log_fs[file_path]
    IN  IF ~f.readable THEN <<>>
        ELSE IF f.broken_at = 0 THEN f.lines
        ELSE SubSeq(f.lines, 1, f.broken_at - 1)

ProcessFile(q, loc, file_path) ==
    ProcessLines(q, loc, ReadFileLines(file_path), file_path, 1)

\* a sort key that puts the entries without timestamp behind every timestamp
SortKeyNoneLatest(e) == IF e.timestamp = {} THEN 3
                        ELSE CHOOSE t \in e.timestamp : TRUE

\* line 245: key=lambda x: x.timestamp or datetime.min
SortKey(e) == IF e.timestamp = {} THEN DatetimeMin
              ELSE CHOOSE t \in e.timestamp : TRUE

ByTimestamp(entries) ==
    [i \in 1..Len(entries) |-> <<SortKey(entries[i]), entries[i]>>]

\* lines 245-246: results.sort(...); results[:limit]
SortAndCut(entries, rev, limit) ==
    Take(Items(StableSort(ByTimestamp(entries), rev)), limit)

NoQLoc == [limit |-> 0, level_filter |-> {}, regex_compiled |-> {},
           log_files |-> <<>>]

\* no monitor is in use
MonOff ==
    /\ cfg = [interval |-> 1, has_output |-> FALSE, rotate_max_lines |-> {},
              rotate_max_bytes |-> {}, keep_in_memory |-> TRUE,
              summary_on_stop |-> TRUE]
    /\ is_running = FALSE /\ data_points = <<>> /\ thread = 0
    /\ stop_event = FALSE /\ log_fp = "none"
    /\ lines_written = 0 /\ bytes_written = 0
    /\ active = <<>> /\ rotated = <<>> /\ rot_sec = FALSE
    /\ summary_file = "absent"
    /\ wpc = [w \in Workers |-> "none"] /\ wloc = [w \in Workers |-> NoWLoc]
    /\ spc = "idle" /\ sloc = NoSLoc /\ ret = NoRet /\ nsess = 0
    /\ hist = NoHist

\* a LogAnalyzer, a file system and the arguments of one call of query_logs
LogInit ==
    /\ log_fs \in [Paths -> FileShapes]
    /\ lcfg \in LogConfigs
    /\ query \in Queries
    /\ qpc = "idle"
    /\ qloc = NoQLoc
    /\ pending = {}
    /\ results = <<>>
    /\ qret = <<>>
    /\ MonOff

\* lines 198-237: the limit, the filters, the discovery, one future a file
Q_Start ==
    /\ qpc = "idle"
    /\ qloc' = [limit |-> EffectiveLimit(query.limit),
                level_filter |-> NormalLevels(query.level_filter),
                regex_compiled |-> CompileRegex(query.regex_pattern),
                log_files |-> DiscoverLogFiles(PatternsUsed(query.file_patterns))]
    /\ pending' = 1..Len(qloc'.log_files)
    /\ results' = <<>>
    /\ qpc' = "gather"
    /\ UNCHANGED <<log_fs, lcfg, query, qret>>
    /\ UNCHANGED monVars

\* future i has been taken up by one of the pool's threads
Started(i) == Cardinality({j \in pending : j < i}) < MaxWorkers

\* a gathering that a failed read brings to an end: the futures still pending
\* are dropped
Q_CompleteFailFast(i) ==
    /\ qpc = "gather"
    /\ i \in pending
    /\ Started(i)
    /\ IF log_fs[qloc.log_files[i]].readable
          /\ log_fs[qloc.log_files[i]].broken_at = 0
       THEN /\ results' = results \o ProcessFile(query, qloc, qloc.log_files[i])
            /\ pending' = pending \ {i}
       ELSE /\ results' = results
            /\ pending' = {}
    /\ UNCHANGED <<log_fs, lcfg, query, qpc, qloc, qret>>
    /\ UNCHANGED monVars

\* lines 238-243: as_completed yields future i, its entries go behind those
\* already there
Q_Complete(i) ==
    /\ qpc = "gather"
    /\ i \in pending
    /\ Started(i)
    /\ results' = results \o ProcessFile(query, qloc, qloc.log_files[i])
    /\ pending' = pending \ {i}
    /\ UNCHANGED <<log_fs, lcfg, query, qpc, qloc, qret>>
    /\ UNCHANGED monVars

\* lines 245-246: sort, cut, return
Q_Return ==
    /\ qpc = "gather"
    /\ pending = {}
    /\ qret' = SortAndCut(results, query.reverse_order, qloc.limit)
    /\ qpc' = "done"
    /\ UNCHANGED <<log_fs, lcfg, query, qloc, pending, results>>
    /\ UNCHANGED monVars

LogNext ==
    \/ Q_Start
    \/ \E i \in 1..(2 * MaxFiles) : Q_Complete(i)
    \/ Q_Return

LogSpec == LogInit /\ [][LogNext]_vars

\* ---- query_logs over a file of one line of any shape
\* the characters of a line as far as the message goes: a letter, a blank,
\* a colon
Chars == {"x", " ", ":"}

MaxText == 4

Texts == UNION {[1..n -> Chars] : n \in 0..MaxText}

ParseInit ==
    /\ \E t \in Texts :
          log_fs = [p \in Paths |->
                      [mtime |-> 1, size_mb |-> 1, readable |-> TRUE,
                       broken_at |-> 0, gz |-> FALSE,
                       lines |-> IF p = 1
                                 THEN <<[ts |-> {}, words |-> {},
                                         process |-> {}, text |-> t]>>
                                 ELSE <<LineA>>]]
    /\ lcfg = [log_paths |-> <<Paths>>, include_rotated |-> TRUE,
               max_files_per_pattern |-> MaxFiles, max_file_size_mb |-> 100,
               default_limit |-> DefaultLimit]
    /\ \E r \in BOOLEAN :
          query = [text_filter |-> "", level_filter |-> {}, time_range |-> {},
                   process_filter |-> "", regex_pattern |-> {},
                   file_patterns |-> {}, limit |-> {}, reverse_order |-> r]
    /\ qpc = "idle"
    /\ qloc = NoQLoc
    /\ pending = {}
    /\ results = <<>>
    /\ qret = <<>>
    /\ MonOff

ParseSpec == ParseInit /\ [][LogNext]_vars

\* ---- discover_log_files called on its own
\* files of three ages, small or over the size limit, plain or .gz
DiscShapes ==
    [mtime : 1..3, size_mb : {1, 200}, readable : {TRUE}, broken_at : {0},
     gz : BOOLEAN, lines : {<<LineA>>}]

DiscConfigs ==
    [log_paths : {<<Paths>>, <<{1, 2}, {2, 3}>>}, include_rotated : BOOLEAN,
     max_files_per_pattern : {1, 2}, max_file_size_mb : {100},
     default_limit : {DefaultLimit}]

\* the patterns argument of discover_log_files: None, or a list of patterns
DiscPatterns == {{}, {<<{1, 3}>>}}

DiscInit ==
    /\ log_fs \in [Paths -> DiscShapes]
    /\ lcfg \in DiscConfigs
    /\ \E ps \in DiscPatterns :
          query = [text_filter |-> "", level_filter |-> {}, time_range |-> {},
                   process_filter |-> "", regex_pattern |-> {},
                   file_patterns |-> ps, limit |-> {}, reverse_order |-> TRUE]
    /\ qpc = "idle"
    /\ qloc = NoQLoc
    /\ pending = {}
    /\ results = <<>>
    /\ qret = <<>>
    /\ MonOff

\* lines 92-124: the call returns the discovered paths
D_Discover ==
    /\ qpc = "idle"
    /\ qloc' = [qloc EXCEPT
                  !.log_files = DiscoverLogFiles(PatternsUsed(query.file_patterns))]
    /\ qpc' = "discovered"
    /\ UNCHANGED <<log_fs, lcfg, query, pending, results, qret>>
    /\ UNCHANGED monVars

DiscNext == D_Discover

DiscoverSpec == DiscInit /\ [][DiscNext]_vars

\* one monitor, its caller, its workers and the clock
Init == MonInit /\ LogOff

Next == MonNext

Spec == Init /\ [][Next]_vars

\* ------------------------------------------------------------- scheduling
\* A thread that can take a step of its own code takes it; the steps that wait
\* for the provider or the callback to return (W_Collect, W_Callback) and the
\* caller's decisions to call start() or stop() are under no such obligation.
WorkerProgress(w) ==
    \/ W_Loop(w)
    \/ \E ok \in BOOLEAN : W_Persist(w, ok)
    \/ W_MaybeRotate(w)
    \/ \E rename_ok \in BOOLEAN : W_Reopen(w, rename_ok)
    \/ W_Wait(w)

CallerProgress == S_Join \/ S_Close \/ S_Return

Fairness ==
    /\ WF_vars(Tick)
    /\ WF_vars(CallerProgress)
    /\ \A w \in Workers : WF_vars(WorkerProgress(w))

FairSpec == Init /\ [][Next]_vars /\ Fairness

\* the same, with every call of the provider and of the callback coming
\* back, by return or by exception
CallsComeBack ==
    \A w \in Workers :
        /\ WF_vars(\E c \in CpuValues, ok \in BOOLEAN : W_Collect(w, c, ok))
        /\ WF_vars(\E ok \in BOOLEAN : W_Callback(w, ok))

FairCallsSpec == Init /\ [][Next]_vars /\ Fairness /\ CallsComeBack

\* ------------------------------------------------------------- properties
\* the worker of the current session is alive
WorkerAlive == thread # 0 /\ wpc[thread] \notin {"none", "done"}

\* a call of start() / of stop() is the step that leaves its outcome in ret
StartReturns == spc = "idle" /\ ret' # ret /\ ret'.op = "start"

StopCalled == spc = "idle" /\ ret' # ret /\ ret'.op = "stop"

\* C1: start() on a monitor that is running raises the already-running error
\* and changes nothing: no thread is created, the buffer, the stop flag, the
\* sink and its counters, the files and the workers are as they were.
C1_StartOnRunningRefused ==
    [][(is_running /\ StartReturns) =>
            /\ ret'.kind = "AlreadyRunning"
            /\ ret'.raised
            /\ UNCHANGED <<cfg, is_running, data_points, thread, stop_event,
                           log_fp, lines_written, bytes_written, active,
                           rotated, rot_sec, summary_file, wpc, wloc, spc,
                           sloc, nsess>>]_vars

C1_Witness ==
    /\ ret.op = "start" /\ ret.kind = "AlreadyRunning"
    /\ is_running /\ WorkerAlive
    /\ data_points # <<>>
    /\ log_fp = "open"

\* C2 as claimed: stop() on a monitor that is not running ends with a
\* not-running error raised to the caller.
C2_StopOnIdleRaises ==
    (ret.op = "stop" /\ ret.kind = "NotRunning") => ret.raised

\* C2 as amended: stop() on a monitor that is not running hands the error
\* value {"error": "Monitoring is not running"} back to its caller, raising
\* nothing, and changes no state.
C2_StopOnIdleReturnsError ==
    [][(~is_running /\ StopCalled) =>
            /\ ret' = StopRefusal
            /\ ~ret'.raised
            /\ UNCHANGED <<cfg, is_running, data_points, thread, stop_event,
                           log_fp, lines_written, bytes_written, active,
                           rotated, rot_sec, summary_file, wpc, wloc, spc,
                           sloc, nsess, hist>>]_vars

C2_Witness ==
    /\ ret = StopRefusal
    /\ ~is_running
    /\ hist.ended_by = "duration"
    /\ data_points # <<>>

\* C3: a stop() on a running session comes back to its caller, and a stop()
\* whose join timed out comes back with the result (the summary and the data
\* points so far).
C3_StopAlwaysReturns ==
    /\ (spc # "idle") ~> (spc = "idle")
    /\ []((ret.op = "stop" /\ ret.timed_out) => ret.kind = "result")

\* the first half of C3 alone
StopTerminates == (spc # "idle") ~> (spc = "idle")

\* the first session of a monitor, run with no failure, no slow call and no
\* stop() until its loop ended by duration
UndisturbedToDuration ==
    /\ nsess = 1
    /\ hist.ended_by = "duration"
    /\ ~hist.disturbed
    /\ ~stop_event

\* C4: a session of interval i and duration d, d a multiple of i, run to its
\* duration and then stopped, yields a result of d/i data points whose
\* summary has duration_seconds = d.
C4_DurationThenStop ==
    (/\ UndisturbedToDuration
     /\ cfg.keep_in_memory
     /\ hist.duration % cfg.interval = 0
     /\ ret.op = "stop")
    => /\ ret.kind = "result"
       /\ Len(ret.data_points) = hist.duration \div cfg.interval
       /\ ret.summary.duration_seconds = hist.duration

\* C5: with d >= i, no failure and no stop(), the loop that ends by duration
\* has collected between floor(d/i) - 1 and floor(d/i) + 1 data points.
C5_SampleCount ==
    (UndisturbedToDuration /\ hist.duration >= cfg.interval)
    => /\ hist.collected >= (hist.duration \div cfg.interval) - 1
       /\ hist.collected <= (hist.duration \div cfg.interval) + 1

\* C6: the result of a stop() on a running session whose buffer is empty
\* carries the empty summary, not an error value.
C6_EmptyBufferEmptySummary ==
    (ret.op = "stop" /\ ret.kind = "result" /\ ret.data_points = <<>>)
    => ret.summary.kind = "empty"

\* C7: in every result of stop() the summary is the one computed over the
\* data points of that result, and cpu_max >= cpu_avg >= 0.
C7_SummaryOfReturnedSamples ==
    (ret.op = "stop" /\ ret.kind = "result")
    => /\ ret.summary = StopSummary(ret.data_points, cfg.interval)
       /\ ret.summary.kind = "stats" =>
             /\ ret.summary.cpu_max * ret.summary.cpu_avg_den
                  >= ret.summary.cpu_avg_num
             /\ ret.summary.cpu_avg_num >= 0

\* C8: with rotate_max_lines = N, no byte threshold and a fresh file, after
\* k*N + r appends (0 < r < N) there are k rotated files of N lines each and
\* an active file of r lines.
C8_RotationLayout ==
    \A N \in cfg.rotate_max_lines :
        (/\ cfg.rotate_max_bytes = {}
         /\ wpc[1] = "callback"
         /\ ~hist.disturbed /\ ~hist.rename_failed
         /\ hist.writes % N > 0)
        => /\ Len(rotated) = hist.writes \div N
           /\ \A j \in 1..Len(rotated) : Len(rotated[j]) = N
           /\ Len(active) = hist.writes % N

\* C9: for every limit L >= 0 given to query_logs, L = 0 too, the list it
\* returns has at most L entries.
C9_LimitIsUpperBound ==
    qpc = "done" => \A L \in query.limit : Len(qret) <= L

\* the entries of the files, taken in the order the files were submitted
RECURSIVE InSubmissionOrder(_)
InSubmissionOrder(files) ==
    IF files = <<>> THEN <<>>
    ELSE ProcessFile(query, qloc, Head(files)) \o InSubmissionOrder(Tail(files))

\* C10: whatever the order in which the pool's workers complete, query_logs
\* returns one and the same list: the one it returns when the files complete
\* in the order of their submission.
C10_CompletionOrderIrrelevant ==
    qpc = "done" =>
        qret = SortAndCut(InSubmissionOrder(qloc.log_files),
                          query.reverse_order, qloc.limit)

\* the levels a level filter asks for, whatever the letter case it is given in
LevelsAsked == {Upper(l) : l \in query.level_filter}

\* the entries of a file that pass the filters other than the level filter
\* and whose level is one of those asked for
WithLevelAsked(file_path) ==
    LET Asked(e) == e.level \in LevelsAsked
    IN  SelectSeq(ProcessFile([query EXCEPT !.level_filter = {}],
                              [qloc EXCEPT !.level_filter = {}], file_path),
                  Asked)

\* C11: with a level filter S, every file contributes exactly its entries
\* that pass the other filters and whose detected level is in S, whatever the
\* letter case of S, and no entry returned has a level outside S or no level.
C11_LevelFilter ==
    /\ [][(qpc = "gather" /\ query.level_filter # {} /\ pending' # pending) =>
             \A i \in pending \ pending' :
                 results' = results \o WithLevelAsked(qloc.log_files[i])]_vars
    /\ []((qpc = "done" /\ query.level_filter # {}) =>
             \A i \in 1..Len(qret) :
                 qret[i].level # "none" /\ qret[i].level \in LevelsAsked)

C11_Witness ==
    /\ qpc = "done"
    /\ query.level_filter = {"error"}
    /\ \E i \in 1..Len(qloc.log_files) :
           log_fs[qloc.log_files[i]].lines = <<LineD>>
    /\ Len(qret) = 1
    /\ qret[1].level = "ERROR"

\* the query in hand with regex_pattern=None, and the locals query_logs
\* computes for it
WithoutRegex == [query EXCEPT !.regex_pattern = {}]

LocalsWithoutRegex ==
    [limit |-> EffectiveLimit(WithoutRegex.limit),
     level_filter |-> NormalLevels(WithoutRegex.level_filter),
     regex_compiled |-> CompileRegex(WithoutRegex.regex_pattern),
     log_files |-> DiscoverLogFiles(
                      IF WithoutRegex.file_patterns = {} THEN lcfg.log_paths
                      ELSE CHOOSE p \in WithoutRegex.file_patterns : TRUE)]

\* C12: a query whose regex_pattern does not compile runs as the same query
\* with regex_pattern=None does: the same limit, the same files, and from
\* every file the same entries.
C12_BadRegexIsNoRegex ==
    /\ []((query.regex_pattern = {"("} /\ qpc # "idle") =>
              qloc = LocalsWithoutRegex)
    /\ [][(query.regex_pattern = {"("} /\ qpc = "gather"
            /\ pending' # pending) =>
             \A i \in pending \ pending' :
                 results' = results \o ProcessFile(WithoutRegex,
                                                   LocalsWithoutRegex,
                                                   qloc.log_files[i])]_vars

C12_Witness ==
    /\ qpc = "done"
    /\ query.regex_pattern = {"("}
    /\ query.text_filter = "ERROR"
    /\ Len(qret) = 2
    /\ \E i \in 1..Len(qloc.log_files) :
           log_fs[qloc.log_files[i]].lines = <<LineC, LineA>>

\* the rank of an entry by time: its timestamp, and the earliest possible
\* value when it has none
RankByTime(e) == IF e.timestamp = {} THEN 0 ELSE CHOOSE t \in e.timestamp : TRUE

Count(s, e) == Cardinality({i \in 1..Len(s) : s[i] = e})

\* C13: with a limit L (given, or the default), the list returned holds L of
\* the entries gathered from the files (all of them when there are fewer),
\* ordered by timestamp in the direction of reverse_order, an entry without
\* timestamp ranking as the earliest; with reverse_order true these are the
\* entries with the greatest timestamps, newest first.
C13_NewestFirstThenCut ==
    (qpc = "done" /\ query.limit # {0}) =>
        /\ Len(qret) = IF qloc.limit < Len(results) THEN qloc.limit
                       ELSE Len(results)
        /\ \A i \in 1..Len(qret) : Count(qret, qret[i]) <= Count(results, qret[i])
        /\ \A i, j \in 1..Len(qret) :
              i < j => IF query.reverse_order
                       THEN RankByTime(qret[i]) >= RankByTime(qret[j])
                       ELSE RankByTime(qret[i]) <= RankByTime(qret[j])
        /\ query.reverse_order =>
              \A k \in 1..Len(results) :
                  Count(qret, results[k]) < Count(results, results[k]) =>
                      \A i \in 1..Len(qret) :
                          RankByTime(qret[i]) >= RankByTime(results[k])

C13_Witness ==
    /\ qpc = "done"
    /\ query.reverse_order
    /\ query.limit = {1}
    /\ Len(results) = 3
    /\ \E k \in 1..3 : results[k].timestamp = {}
    /\ \E k \in 1..3 : results[k].timestamp = {1}
    /\ Len(qret) = 1
    /\ qret[1].timestamp = {2}

\* a file that cannot be read to its end
Failing(p) == ~log_fs[p].readable \/ log_fs[p].broken_at # 0

\* the entries a file holds for the query in hand, were it read alone and
\* to its end
EntriesOf(p) == ProcessLines(query, qloc, log_fs[p].lines, p, 1)

\* the number of times a path was discovered
Discovered(p) == Cardinality({j \in 1..Len(qloc.log_files) : qloc.log_files[j] = p})

\* C14: when a discovered file fails to be read, at open or part-way, the
\* query still comes to its end with every future completed, and the
\* entries gathered from every other file are exactly those of that file.
C14_FileFailureIsolated ==
    (qpc = "done" /\ \E j \in 1..Len(qloc.log_files) : Failing(qloc.log_files[j]))
    => /\ pending = {}
       /\ \A p \in Paths :
             (Discovered(p) > 0 /\ ~Failing(p)) =>
                /\ \A k \in 1..Len(EntriesOf(p)) :
                      Count(results, EntriesOf(p)[k])
                         = Discovered(p) * Count(EntriesOf(p), EntriesOf(p)[k])
                /\ \A k \in 1..Len(results) :
                      results[k].file_path = p =>
                         \E n \in 1..Len(EntriesOf(p)) :
                            results[k] = EntriesOf(p)[n]

C14_Witness ==
    /\ qpc = "done"
    /\ \E j \in 1..Len(qloc.log_files) : log_fs[qloc.log_files[j]].broken_at = 2
    /\ \E j \in 1..Len(qloc.log_files) : ~log_fs[qloc.log_files[j]].readable
    /\ \E k \in 1..Len(results) : Failing(results[k].file_path)
    /\ \E k \in 1..Len(results) : ~Failing(results[k].file_path)
    /\ Len(qret) = 2

\* the patterns of the call in hand
Patterns == PatternsUsed(query.file_patterns)

\* the files of a pattern that are newer than p, and those at least as new
Newer(pattern, p) == {x \in pattern : Mtime(x) > Mtime(p)}
NoOlder(pattern, p) == {x \in pattern \ {p} : Mtime(x) >= Mtime(p)}

\* a sequence of paths as the set of its members
Members(files) == {files[i] : i \in 1..Len(files)}

\* C15: each pattern contributes its matches newest first, cut to the newest
\* max_files_per_pattern and then without the files over max_file_size_mb;
\* a file dropped for its size is not replaced by an older one.
C15_DiscoveryPerPattern ==
    qpc = "discovered" =>
       /\ qloc.log_files = DiscoverLogFiles(Patterns)
       /\ \A i \in 1..Len(qloc.log_files) : SmallEnough(qloc.log_files[i])
       /\ \A k \in 1..Len(Patterns) :
             LET c == FilesOf(Patterns[k])
             IN  /\ Len(c) <= lcfg.max_files_per_pattern
                 /\ \A i, j \in 1..Len(c) :
                       i < j => c[i] # c[j] /\ Mtime(c[i]) >= Mtime(c[j])
                 /\ \A i \in 1..Len(c) :
                       /\ c[i] \in Patterns[k]
                       /\ SmallEnough(c[i])
                       /\ Cardinality(Newer(Patterns[k], c[i]))
                             < lcfg.max_files_per_pattern
                 /\ \A p \in Patterns[k] :
                       (/\ SmallEnough(p)
                        /\ Cardinality(NoOlder(Patterns[k], p))
                              < lcfg.max_files_per_pattern)
                       => p \in Members(c)

C15_Witness ==
    /\ qpc = "discovered"
    /\ Patterns = <<Paths>>
    /\ lcfg.max_files_per_pattern = 2
    /\ Len(qloc.log_files) = 1
    /\ \E p \in Paths :
          /\ SmallEnough(p)
          /\ p \notin Members(qloc.log_files)
          /\ \A x \in Paths \ {p} : Mtime(x) > Mtime(p)
    /\ \E p \in Paths : log_fs[p].size_mb = 200

\* C16: include_rotated governs the .gz files: with it set the matching .gz
\* files that pass the cut and the size test are discovered, with it unset
\* no .gz file is.
C16_IncludeRotatedGovernsGz ==
    qpc = "discovered" =>
       IF lcfg.include_rotated
       THEN \A k \in 1..Len(Patterns) : \A p \in Patterns[k] :
               (/\ log_fs[p].gz
                /\ SmallEnough(p)
                /\ Cardinality(NoOlder(Patterns[k], p))
                      < lcfg.max_files_per_pattern)
               => p \in Members(qloc.log_files)
       ELSE \A i \in 1..Len(qloc.log_files) : ~log_fs[qloc.log_files[i]].gz

\* C17: every entry parse_log_entry produces, and so every entry query_logs
\* returns, has a non-empty message, whatever the line: blank, of blanks
\* only, or with blanks only behind a colon.
C17_MessageNonEmpty ==
    /\ \A i \in 1..Len(results) : results[i].message # <<>>
    /\ \A i \in 1..Len(qret) : qret[i].message # <<>>

\* the monitor's session has reached Stopped
Stopped == nsess >= 1 /\ ~is_running

\* C18 as stated: once a session has reached Stopped the instance never
\* becomes Running again; a later start() begins no new session.
C18_StoppedIsTerminal == [][Stopped => ~is_running']_vars

\* C18: a start() on an instance whose session has reached Stopped is not
\* refused: the instance is Running again with the stop flag cleared and the
\* buffer emptied, and unless the output cannot be prepared a new worker
\* thread begins a new session.
C18_StoppedInstanceRestarts ==
    [][(Stopped /\ StartReturns) =>
            /\ ret'.kind \in {"started", "PrepareFailed"}
            /\ is_running'
            /\ ~stop_event'
            /\ data_points' = <<>>
            /\ ret'.kind = "started" =>
                  /\ nsess' = nsess + 1
                  /\ thread' = nsess'
                  /\ wpc'[thread'] = "loop"]_vars

C18_Witness ==
    /\ nsess = 2
    /\ is_running
    /\ ret.op = "start" /\ ret.kind = "started"
    /\ wpc[1] = "done" /\ wpc[2] = "loop"
    /\ data_points = <<>>

\* worker w leaves the sink write or the callback by an exception, with no
\* stop requested
RaisedOnTick(w) ==
    /\ ~stop_event
    /\ wpc'[w] # wpc[w]
    /\ \/ wpc[w] = "persist" /\ wpc'[w] \notin {"callback", "maybe_rotate"}
       \/ /\ wpc[w] = "callback"
          /\ IF DurationReached(w) THEN hist'.ended_by # "duration"
             ELSE wpc'[w] # "wait"

\* stop() hands its result to the caller
StopResult_Returned == spc # "idle" /\ ret' # ret /\ ret'.kind = "result"

\* C19: an exception of the callback or of the sink write on a tick does not
\* end the session: the loop goes on to collect the next sample, the sample
\* of the failing tick stays in the buffer, and the result of a later stop()
\* holds every sample collected in the session.
C19_TickFailureKeepsSession ==
    /\ [][\A w \in Workers :
            RaisedOnTick(w) =>
               /\ wpc'[w] = "collect"
               /\ is_running /\ is_running'
               /\ data_points' = data_points
               /\ cfg.keep_in_memory => Len(data_points) = hist.collected
                                         /\ hist.collected >= 1]_vars
    /\ [][(StopResult_Returned /\ cfg.keep_in_memory) =>
            /\ ret'.data_points = data_points
            /\ ret'.total_points = hist.collected]_vars

C19_Witness ==
    /\ nsess = 1
    /\ cfg.has_output /\ cfg.keep_in_memory
    /\ ret.op = "stop" /\ ret.kind = "result" /\ ~ret.timed_out
    /\ wpc[1] = "done"
    /\ Len(ret.data_points) = 2
    /\ ret.data_points[1] # ret.data_points[2]
    /\ rotated = <<>>
    /\ active = <<ret.data_points[2]>>

\* C20: whenever the loop has exited, by duration or by stop request, the
\* sink's handle ends up closed: no state has the session no longer Running,
\* no stop() in progress and the handle still open.
C20_SinkClosedOnLoopExit ==
    (~is_running /\ spc = "idle") => log_fp # "open"

\* C21: after a tick in which a step raises the loop waits out the interval
\* before it collects again: a worker comes to a collection attempt only
\* from the start of its thread or from the interval wait.
C21_WaitBeforeNextAttempt ==
    [][\A w \in Workers :
          (wpc'[w] = "collect" /\ wpc[w] # "collect") =>
             wpc[w] \in {"loop", "wait"}]_vars

C23_StopInterruptsWait ==
    /\ [][\A w \in Workers :
            (wpc[w] = "wait" /\ stop_event) =>
               IF wpc'[w] = "wait"
               THEN wloc'[w].wait_left = wloc[w].wait_left
               ELSE /\ wpc'[w] = "done"
                    /\ ~is_running'
                    /\ data_points' = data_points]_vars
    /\ [][\A w \in Workers :
            (stop_event /\ wpc'[w] = "collect") => wpc[w] = "collect"]_vars

C23_Witness ==
    /\ wpc[1] = "wait"
    /\ wloc[1].wait_left > 0
    /\ stop_event
    /\ spc = "join"
    /\ Len(data_points) = 1

\* C24: while the session is Running only the worker touches the sink's
\* handle: no other thread has closed it, no write of the worker meets a
\* handle closed by another thread, and once stop() has returned its result
\* no handle reopened by a rotation is open.
C24_HandleOwnedByWorker ==
    /\ is_running => log_fp # "closed"
    /\ \A w \in Workers : wpc[w] = "persist" => log_fp # "closed"
    /\ (spc = "idle" /\ ret.op = "stop" /\ ret.kind = "result")
          => log_fp # "open"

\* the last third of C24 alone
C24_NoHandleLeftOpen ==
    (spc = "idle" /\ ret.op = "stop" /\ ret.kind = "result") => log_fp # "open"

\* the text of the line an entry was made from
TextOf(e) == log_fs[e.file_path].lines[e.line_number].text

\* the places of a text where a colon is followed by a blank
Boundaries(t) == {i \in 1..(Len(t) - 1) : t[i] = ":" /\ t[i + 1] = " "}

\* the text behind the last of them
AfterLastBoundary(t) ==
    LET last == CHOOSE i \in Boundaries(t) : \A j \in Boundaries(t) : j <= i
    IN  Strip(SubSeq(t, last + 2, Len(t)))

\* C25: the message of an entry is the text after the last colon-space
\* boundary of its line, also when the line has several colons, and the
\* stripped line when the line has no colon.
C25_MessageAfterLastBoundary ==
    \A i \in 1..Len(results) :
        LET t == TextOf(results[i])
        IN  /\ Boundaries(t) # {} => results[i].message = AfterLastBoundary(t)
            /\ (\A k \in 1..Len(t) : t[k] # ":") => results[i].message = Strip(t)

\* the number of lines held by a sequence of files
RECURSIVE LinesIn(_)
LinesIn(files) ==
    IF files = <<>> THEN 0 ELSE Len(Head(files)) + LinesIn(Tail(files))

\* C26: rotation loses no persisted sample: the rotated files and the active
\* file together hold one line for every sample written, also when two
\* rotations fall in one second and when the rename fails.
C26_RotationKeepsLines ==
    LinesIn(rotated) + Len(active) = hist.writes

\* C27: with a time_range (start, end) every returned entry has a timestamp
\* t with start <= t <= end; an entry without a timestamp is not returned.
C27_TimeRangeExcludesUndated ==
    (qpc = "done" /\ query.time_range # {}) =>
        \A i \in 1..Len(qret) : \A r \in query.time_range :
            /\ qret[i].timestamp # {}
            /\ \A t \in qret[i].timestamp : r[1] <= t /\ t <= r[2]

\* C28: no path occurs twice in the discovered list and no two returned
\* entries come from the same line of the same file, also when a file
\* matches more than one pattern.
C28_NoDuplicates ==
    qpc # "idle" =>
        /\ \A i, j \in 1..Len(qloc.log_files) :
              i # j => qloc.log_files[i] # qloc.log_files[j]
        /\ \A i, j \in 1..Len(qret) :
              i # j => \/ qret[i].file_path # qret[j].file_path
                       \/ qret[i].line_number # qret[j].line_number

\* C29: a start() that raises while preparing the output leaves the monitor
\* not Running: is_running is never true with no worker alive to clear it.
C29_RunningHasWorker == is_running => WorkerAlive

\* the workers whose loop is executing
Executing == {w \in Workers : wpc[w] \notin {"none", "done"}}

\* C30: whatever the interleaving of start(), stop(), timed-out joins and
\* loop exits, at most one worker loop is executing, and it is the worker
\* of the latest session: a worker of an earlier session has ended before the
\* next session begins and writes nothing of it.
C30_OneWorkerAtATime ==
    /\ Cardinality(Executing) <= 1
    /\ \A w \in Executing : w = thread /\ w = nsess /\ is_running

C30_Witness ==
    /\ nsess = 2
    /\ wpc[1] = "done"
    /\ wpc[2] = "persist"
    /\ Len(data_points) = 1
    /\ is_running

====
